---- MODULE Spec2Model ----
(***************************************************************************)
(* A model of the gostride client library.                                 *)
(*                                                                         *)
(* Collector (src/collector.go): callers enqueue collectRequests on the    *)
(* buffered channel `incoming`; one coordinator goroutine (Collector.start)*)
(* merges them into the `events` map, and flushEvents hands the map to a   *)
(* goroutine that POSTs it, bounded by the `semaphone` channel and tracked *)
(* by the WaitGroup `wg`.  Close kills the tomb, closes `incoming` and     *)
(* waits for the coordinator.                                              *)
(*                                                                         *)
(* Events are modelled by their identity: the k-th event ever accepted by  *)
(* Collect is the number k.  `accepted`, `flushed`, `posts` and            *)
(* `lastErr` are history variables: they record what the program did   *)
(* and are never read by an action's guard.                                *)
(*                                                                         *)
(* Subscription (src/unnamed/part_000): Start runs the reconnect loop      *)
(* `start` under the tomb; a 200 response enters `receive`, where a helper *)
(* goroutine scans the body with scanLines and hands each token over the   *)
(* unbuffered channel `tokenCh`; decoded events go out on the unbuffered   *)
(* channel `Events`.  Stop kills the tomb, waits for the loop and closes   *)
(* `Events`.                                                               *)
(*                                                                         *)
(* Frame scanner (scanLines in src/unnamed/part_000): the split function   *)
(* of the bufio.Scanner of receive, a pure function of a byte buffer and   *)
(* an end-of-stream flag, checked on its own over bounded byte buffers.    *)
(*                                                                         *)
(* The three parts share no state: the specification of one leaves the     *)
(* variables of the others at their initial values.                        *)
(***************************************************************************)
EXTENDS Integers, Sequences, FiniteSets, TLC

\* ---------------------------------------------------------------- bounds
\* CollectorConfig.BatchSize of the instance under check.
BatchSize == 2
\* Capacity of the `incoming` channel (100 in the source, scaled down).
IncomingCap == 1
\* Capacity of the `semaphone` channel (maxReqsInFlight = 1000 in the
\* source, scaled down).
maxReqsInFlight == 1
\* Number of Collect calls made by the callers in one run.
MaxCollects == 2
\* Largest number of events passed to one Collect call.
MaxReqLen == 2
\* Config.Subscription.InitialInterval (one second by default, scaled down to
\* two units of time).
InitialInterval == 2
\* Config.Subscription.MaxInterval (300 seconds by default, scaled down).
MaxInterval == 5
\* Number of requests the reconnect loop issues in one run.
MaxRequests == 3
\* Number of tokens the scanner produces in one run, over all connections.
MaxFrames == 2
\* Number of Stop calls made in one run.
MaxStops == 2
\* Largest number of bytes the scanner reads in one run.
MaxBuf == 4

Streams == {"s0", "s1"}

\* What one call of makeRequest can meet: json.Marshal failing, client.Do
\* failing (transport error or timeout), a 200 response, another status.
Outcomes == {"marshal_error", "transport_error", "status_200", "status_500"}

VARIABLES
  incoming,    \* c.incoming: the requests buffered in the channel, in order
  closed,      \* c.incoming has been closed
  dying,       \* c.tomb.Kill has been called
  events,      \* start's local `events`: stream name -> sequence of events
  liveObj,     \* the map object `events` refers to: i if it is the one handed
               \* to flush i, 0 if it is one no flush task holds
  inflight,    \* inflight[i]: the contents of the map object flush i holds
  numBuffered, \* start's local `numBuffered`
  pc,          \* where the coordinator goroutine is
  trigger,     \* which call site of flushEvents the coordinator is in
  semaphone,   \* number of values held in c.semaphone
  wg,          \* counter of c.wg
  taskPc,      \* taskPc[i]: where the goroutine of the i-th flush is
  closePc,     \* where the caller of Close is
  panicked,    \* a goroutine panicked: the process is gone
  nCollects,   \* number of Collect calls made so far
  accepted,    \* history: accepted[k] is the stream event k was collected under
  flushed,     \* history: the i-th flush: [batch, by, n, upto]
  posts,       \* history: posts[i] is the number of POSTs issued for flush i
  lastErr      \* history: the error the last makeRequest call returned

vars == <<incoming, closed, dying, events, numBuffered, pc, trigger, semaphone,
          wg, taskPc, closePc, panicked, nCollects, accepted, flushed, posts,
          lastErr, liveObj, inflight>>

VARIABLES
  loopPc,          \* where the goroutine running Subscription.start is
  reason,          \* s.tomb: the reason of the tomb (ErrStillAlive while alive)
  connected,       \* s.connected
  currentInterval, \* the backoff policy's current retry interval
  expired,         \* the policy's elapsed time is above its MaxElapsedTime
  wait,            \* start's local `wait`
  scanPc,          \* where the helper goroutine of receive is
  token,           \* the token the receive loop holds (0: none)
  clobbered,       \* the bytes of that token were overwritten by a later Scan
  event,           \* the decoded event receive is delivering (0: garbage)
  eventsClosed,    \* s.Events has been closed
  stopPc,          \* where the caller of Stop is
  subPanic,        \* the panic that ended the process, "none" if none
  requests,        \* history: number of client.Do calls issued
  lastStatus,      \* history: what the last client.Do call met
  nBackoffs,       \* history: NextBackOff calls since the policy's last Reset
  wire,            \* history: kind of the k-th token the scanner produced
  delivered,       \* history: the events received from s.Events, in order
  loopErr,         \* history: the value start returned ("none": running)
  stopErr          \* history: the values the Stop calls returned, in order

subVars == <<loopPc, reason, connected, currentInterval, expired, wait, scanPc,
             token, clobbered, event, eventsClosed, stopPc, subPanic, requests,
             lastStatus, nBackoffs, wire, delivered, loopErr, stopErr>>

VARIABLES
  data,      \* the bytes the scanner has read and not yet consumed
  atEOF,     \* the scanner has met the end of the stream
  scPc,      \* where scanner.Scan is: "split", "read" or "done"
  tokens,    \* history: the tokens scanLines has yielded, in order
  consumed,  \* history: the number of bytes consumed so far
  input      \* history: all the bytes read so far

scanVars == <<data, atEOF, scPc, tokens, consumed, input>>

\* What the actions of one part leave alone.
outsideCollector == <<subVars, scanVars>>
outsideSubscription == <<vars, scanVars>>
outsideScanner == <<vars, subVars>>

\* ------------------------------------------------------- the events map
\* make(map[string][]map[string]interface{})
EmptyMap == [s \in {} |-> <<>>]

\* events[s] of a Go map: the nil slice when the key is absent.
EventsOf(m, s) == IF s \in DOMAIN m THEN m[s] ELSE <<>>

\* Number of events held in a map, over all its streams.
RECURSIVE SumLen(_, _)
SumLen(m, S) ==
  IF S = {} THEN 0
  ELSE LET s == CHOOSE x \in S : TRUE
       IN Len(m[s]) + SumLen(m, S \ {s})

MapCount(m) == SumLen(m, DOMAIN m)

\* Mutant: the assignment replaces the stream's slice instead of appending.
MergeOverwrite(m, req) ==
  [s \in (DOMAIN m) \cup {req.stream} |->
     IF s = req.stream THEN req.events ELSE m[s]]

\* Mutant: the request's events are put in front of the stream's slice.
MergePrepend(m, req) ==
  [s \in (DOMAIN m) \cup {req.stream} |->
     IF s = req.stream THEN req.events \o EventsOf(m, s) ELSE m[s]]

\* events[req.stream] = append(events[req.stream], req.events...)
Merge(m, req) ==
  [s \in (DOMAIN m) \cup {req.stream} |->
     IF s = req.stream THEN EventsOf(m, s) \o req.events ELSE m[s]]

\* A write through `events`: the map object it refers to changes, and with
\* it what a flush task holding that same object sees.
Written(objs, ref, m) ==
  IF ref \in DOMAIN objs THEN [objs EXCEPT ![ref] = m] ELSE objs

\* Mutant: the size trigger fires on any non-empty buffer.
SizeTriggerAny(n) == n > 0

\* Mutant: the size trigger compares with > instead of >=.
SizeTriggerStrict(n) == n > BatchSize

\* if numBuffered >= c.config.BatchSize
SizeTrigger(n) == n >= BatchSize

\* Mutant: the flush is started whether or not anything is buffered.
NonEmptyTriggerAlways(n) == TRUE

\* Mutant: the flush is never started on this test.
NonEmptyTriggerNever(n) == FALSE

\* if numBuffered > 0 (tick and shutdown)
NonEmptyTrigger(n) == n > 0

\* ------------------------------------------------------------- makeRequest
\* Whether makeRequest reaches c.client.Do: not when json.Marshal failed.
IssuesPost(o) == o # "marshal_error"

\* The error makeRequest returns.
MakeRequestError(o) ==
  CASE o = "marshal_error"   -> "ErrInvalidBody"
    [] o = "transport_error" -> "ErrRequestFailed"
    [] o = "status_200"      -> "nil"
    [] OTHER                 -> "ErrServerError"

\* Mutant: a failed request is issued again.
AfterRequestRetry(o) == IF MakeRequestError(o) = "nil" THEN "wgdone" ELSE "request"

\* The flush goroutine after makeRequest returns: the error is dropped and
\* c.wg.Done() is next, whatever makeRequest returned.
AfterRequest(o) == "wgdone"

\* -------------------------------------------------------------------- Init
\* newSubscription, and the local state of start before its first request:
\* the tomb is alive, Events is open, the policy has just been Reset.
SubInit ==
  /\ loopPc = "idle"
  /\ reason = "ErrStillAlive"
  /\ connected = FALSE
  /\ currentInterval = InitialInterval
  /\ expired = FALSE
  /\ wait = 0
  /\ scanPc = "none"
  /\ token = 0
  /\ clobbered = FALSE
  /\ event = 0
  /\ eventsClosed = FALSE
  /\ stopPc = "idle"
  /\ subPanic = "none"
  /\ requests = 0
  /\ lastStatus = 0
  /\ nBackoffs = 0
  /\ wire = <<>>
  /\ delivered = <<>>
  /\ loopErr = "none"
  /\ stopErr = <<>>

\* No scanner is at work.
ScanIdle ==
  /\ data = <<>>
  /\ atEOF = FALSE
  /\ scPc = "done"
  /\ tokens = <<>>
  /\ consumed = 0
  /\ input = <<>>

\* NewCollector: the state of the Collector once its coordinator runs.
CollectorInit ==
  /\ incoming = <<>>
  /\ closed = FALSE
  /\ dying = FALSE
  /\ events = EmptyMap
  /\ liveObj = 0
  /\ inflight = <<>>
  /\ numBuffered = 0
  /\ pc = "select"
  /\ trigger = "none"
  /\ semaphone = 0
  /\ wg = 0
  /\ taskPc = <<>>
  /\ closePc = "idle"
  /\ panicked = FALSE
  /\ nCollects = 0
  /\ accepted = <<>>
  /\ flushed = <<>>
  /\ posts = <<>>
  /\ lastErr = "none"

Init == CollectorInit /\ SubInit /\ ScanIdle

\* ----------------------------------------------------------------- callers
\* The events of a new request: the next n event identities.
NewEvents(n) == [k \in 1..n |-> Len(accepted) + k]

\* Mutant: the send does not wait for room in the channel.
CanSendUnbounded(q) == TRUE

\* c.incoming <- collectRequest{stream, events} can complete.
CanSend(q) == Len(q) < IncomingCap

\* Collect(stream, events...): the send on c.incoming.  On a closed channel
\* the send panics; on a full one the caller stays blocked (the action is
\* not enabled).
Collect(s, n) ==
  /\ ~panicked
  /\ nCollects < MaxCollects
  /\ nCollects' = nCollects + 1
  /\ IF closed
       THEN /\ panicked' = TRUE
            /\ UNCHANGED <<incoming, accepted>>
       ELSE /\ CanSend(incoming)
            /\ incoming' = Append(incoming, [stream |-> s, events |-> NewEvents(n)])
            /\ accepted' = accepted \o [k \in 1..n |-> s]
            /\ UNCHANGED panicked
  /\ UNCHANGED <<closed, dying, events, numBuffered, pc, trigger, semaphone, wg,
                 taskPc, closePc, flushed, posts, lastErr>>
  /\ UNCHANGED <<liveObj, inflight>>
  /\ UNCHANGED outsideCollector

\* Close: c.tomb.Kill(nil)
CloseKill ==
  /\ ~panicked
  /\ closePc = "idle"
  /\ closePc' = "killed"
  /\ dying' = TRUE
  /\ UNCHANGED <<incoming, closed, events, numBuffered, pc, trigger, semaphone,
                 wg, taskPc, panicked, nCollects, accepted, flushed, posts,
                 lastErr>>
  /\ UNCHANGED <<liveObj, inflight>>
  /\ UNCHANGED outsideCollector

\* Close: close(c.incoming)
CloseChannel ==
  /\ ~panicked
  /\ closePc = "killed"
  /\ closePc' = "closed"
  /\ closed' = TRUE
  /\ UNCHANGED <<incoming, dying, events, numBuffered, pc, trigger, semaphone,
                 wg, taskPc, panicked, nCollects, accepted, flushed, posts,
                 lastErr>>
  /\ UNCHANGED <<liveObj, inflight>>
  /\ UNCHANGED outsideCollector

\* Close: c.tomb.Wait() returns once the coordinator goroutine has returned.
CloseReturn ==
  /\ ~panicked
  /\ closePc = "closed"
  /\ pc = "exited"
  /\ closePc' = "returned"
  /\ UNCHANGED <<incoming, closed, dying, events, numBuffered, pc, trigger,
                 semaphone, wg, taskPc, panicked, nCollects, accepted, flushed,
                 posts, lastErr>>
  /\ UNCHANGED <<liveObj, inflight>>
  /\ UNCHANGED outsideCollector

\* ------------------------------------------------------------- coordinator
\* select, case req, ok := <-c.incoming with ok: merge, then the size trigger.
SelectRecv ==
  /\ ~panicked
  /\ pc = "select"
  /\ incoming # <<>>
  /\ LET req == Head(incoming)
         n   == numBuffered + Len(req.events)
     IN /\ incoming' = Tail(incoming)
        /\ events' = Merge(events, req)
        /\ inflight' = Written(inflight, liveObj, events')
        /\ numBuffered' = n
        /\ IF SizeTrigger(n)
             THEN pc' = "flush" /\ trigger' = "size"
             ELSE UNCHANGED <<pc, trigger>>
  /\ UNCHANGED <<closed, dying, semaphone, wg, taskPc, closePc, panicked,
                 nCollects, accepted, flushed, posts, lastErr, liveObj>>
  /\ UNCHANGED outsideCollector

\* select, case req, ok := <-c.incoming with !ok: `break` leaves the select
\* and the for loop goes round again.
SelectRecvClosed ==
  /\ ~panicked
  /\ pc = "select"
  /\ incoming = <<>>
  /\ closed
  /\ UNCHANGED vars
  /\ UNCHANGED outsideCollector

\* select, case <-tick.C
SelectTick ==
  /\ ~panicked
  /\ pc = "select"
  /\ IF NonEmptyTrigger(numBuffered)
       THEN pc' = "flush" /\ trigger' = "tick"
       ELSE UNCHANGED <<pc, trigger>>
  /\ UNCHANGED <<incoming, closed, dying, events, numBuffered, semaphone, wg,
                 taskPc, closePc, panicked, nCollects, accepted, flushed, posts,
                 lastErr>>
  /\ UNCHANGED <<liveObj, inflight>>
  /\ UNCHANGED outsideCollector

\* select, case <-c.tomb.Dying(): tick.Stop(), then the drain loop.
SelectDying ==
  /\ ~panicked
  /\ pc = "select"
  /\ dying
  /\ pc' = "drain"
  /\ UNCHANGED <<incoming, closed, dying, events, numBuffered, trigger,
                 semaphone, wg, taskPc, closePc, panicked, nCollects, accepted,
                 flushed, posts, lastErr>>
  /\ UNCHANGED <<liveObj, inflight>>
  /\ UNCHANGED outsideCollector

\* Mutant: the drain stops as soon as the channel is empty, closed or not.
DrainDoneWhenEmpty(q, isClosed) == q = <<>>

\* The range loop over c.incoming ends: the channel is closed and empty.
DrainDone(q, isClosed) == q = <<>> /\ isClosed

\* for req := range c.incoming: one iteration.
DrainRecv ==
  /\ ~panicked
  /\ pc = "drain"
  /\ incoming # <<>>
  /\ LET req == Head(incoming)
     IN /\ incoming' = Tail(incoming)
        /\ events' = Merge(events, req)
        /\ inflight' = Written(inflight, liveObj, events')
        /\ numBuffered' = numBuffered + Len(req.events)
  /\ UNCHANGED <<closed, dying, pc, trigger, semaphone, wg, taskPc, closePc,
                 panicked, nCollects, accepted, flushed, posts, lastErr,
                 liveObj>>
  /\ UNCHANGED outsideCollector

\* The range loop ends on the closed, empty channel; then the final flush
\* if numBuffered > 0, else straight to c.wg.Wait().
DrainEnd ==
  /\ ~panicked
  /\ pc = "drain"
  /\ DrainDone(incoming, closed)
  /\ IF NonEmptyTrigger(numBuffered)
       THEN pc' = "flush" /\ trigger' = "shutdown"
       ELSE pc' = "wait" /\ UNCHANGED trigger
  /\ UNCHANGED <<incoming, closed, dying, events, numBuffered, semaphone, wg,
                 taskPc, closePc, panicked, nCollects, accepted, flushed, posts,
                 lastErr>>
  /\ UNCHANGED <<liveObj, inflight>>
  /\ UNCHANGED outsideCollector

\* Number of events in the requests of a queue.
RECURSIVE QueueCount(_)
QueueCount(q) == IF q = <<>> THEN 0 ELSE Len(Head(q).events) + QueueCount(Tail(q))

\* History: the number of events the coordinator has taken off the channel.
Merged == Len(accepted) - QueueCount(incoming)

\* Mutant: the semaphore is not consulted before a task is started.
CanAdmitAlways(held) == TRUE

\* c.semaphone <- true can complete.
CanAdmit(held) == held < maxReqsInFlight

\* Mutant: the buffer is not emptied after the hand-off.
ResetKeep(m) == m

\* events = make(...) after the hand-off.
Reset(m) == EmptyMap

\* Mutant: the map handed to flush i stays the live buffer, emptied in place.
MakeMapInPlace(i) == i

\* events = make(...) after the hand-off to flush i: `events` refers to a new
\* map object, one that no flush task holds.
MakeMap(i) == 0

\* flushEvents: take a semaphore slot, c.wg.Add(1), start the goroutine on
\* the current map, reset the buffer.
FlushEvents ==
  /\ ~panicked
  /\ pc = "flush"
  /\ CanAdmit(semaphone)
  /\ semaphone' = semaphone + 1
  /\ wg' = wg + 1
  /\ taskPc' = Append(taskPc, "request")
  /\ flushed' = Append(flushed, [batch |-> events, by |-> trigger,
                                  n |-> numBuffered, upto |-> Merged])
  /\ posts' = Append(posts, 0)
  /\ events' = Reset(events)
  /\ LET i == Len(flushed) + 1
     IN /\ liveObj' = MakeMap(i)
        /\ inflight' = Append(inflight, IF liveObj' = i THEN events' ELSE events)
  /\ numBuffered' = 0
  /\ pc' = IF trigger = "shutdown" THEN "wait" ELSE "select"
  /\ trigger' = "none"
  /\ UNCHANGED <<incoming, closed, dying, closePc, panicked, nCollects,
                 accepted, lastErr>>
  /\ UNCHANGED outsideCollector

\* Mutant: the coordinator returns without waiting for the tasks.
WaitDoneSkip(n) == TRUE

\* c.wg.Wait() returns: the counter is zero.
WaitDone(n) == n = 0

\* c.wg.Wait(); return nil
WaitTasks ==
  /\ ~panicked
  /\ pc = "wait"
  /\ WaitDone(wg)
  /\ pc' = "exited"
  /\ UNCHANGED <<incoming, closed, dying, events, numBuffered, trigger,
                 semaphone, wg, taskPc, closePc, panicked, nCollects, accepted,
                 flushed, posts, lastErr>>
  /\ UNCHANGED <<liveObj, inflight>>
  /\ UNCHANGED outsideCollector

\* ------------------------------------------------------------ flush tasks
\* c.makeRequest(events) of flush i, meeting outcome o.
TaskRequest(i, o) ==
  /\ ~panicked
  /\ taskPc[i] = "request"
  /\ posts' = [posts EXCEPT ![i] = @ + (IF IssuesPost(o) THEN 1 ELSE 0)]
  /\ lastErr' = MakeRequestError(o)
  /\ taskPc' = [taskPc EXCEPT ![i] = AfterRequest(o)]
  /\ UNCHANGED <<incoming, closed, dying, events, numBuffered, pc, trigger,
                 semaphone, wg, closePc, panicked, nCollects, accepted, flushed>>
  /\ UNCHANGED <<liveObj, inflight>>
  /\ UNCHANGED outsideCollector

\* c.wg.Done()
TaskDone(i) ==
  /\ ~panicked
  /\ taskPc[i] = "wgdone"
  /\ wg' = wg - 1
  /\ taskPc' = [taskPc EXCEPT ![i] = "release"]
  /\ UNCHANGED <<incoming, closed, dying, events, numBuffered, pc, trigger,
                 semaphone, closePc, panicked, nCollects, accepted, flushed,
                 posts, lastErr>>
  /\ UNCHANGED <<liveObj, inflight>>
  /\ UNCHANGED outsideCollector

\* Mutant: the task ends without taking its value back out of the channel.
ReleaseSkip(held) == held

\* <-c.semaphone: one slot of the limiter is given back.
Release(held) == held - 1

\* <-c.semaphone, and the goroutine ends.
TaskRelease(i) ==
  /\ ~panicked
  /\ taskPc[i] = "release"
  /\ semaphone' = Release(semaphone)
  /\ taskPc' = [taskPc EXCEPT ![i] = "finished"]
  /\ UNCHANGED <<incoming, closed, dying, events, numBuffered, pc, trigger,
                 wg, closePc, panicked, nCollects, accepted, flushed, posts,
                 lastErr>>
  /\ UNCHANGED <<liveObj, inflight>>
  /\ UNCHANGED outsideCollector

\* ---------------------------------------------------------- specification
CallerStep ==
  \/ \E s \in Streams, n \in 0..MaxReqLen : Collect(s, n)
  \/ CloseKill
  \/ CloseChannel
  \/ CloseReturn

CoordinatorStep ==
  \/ SelectRecv
  \/ SelectRecvClosed
  \/ SelectTick
  \/ SelectDying
  \/ DrainRecv
  \/ DrainEnd
  \/ FlushEvents
  \/ WaitTasks

TaskStep ==
  \E i \in 1..Len(taskPc) :
    \/ \E o \in Outcomes : TaskRequest(i, o)
    \/ TaskDone(i)
    \/ TaskRelease(i)

Next == CallerStep \/ CoordinatorStep \/ TaskStep

Spec == Init /\ [][Next]_vars

\* Fairness of the scheduling: every goroutine that can run does run; a
\* select with several ready cases picks one at random, so a case that is
\* ready again and again is taken (strong fairness of the Dying case).
FairSpec ==
  /\ Spec
  /\ WF_vars(CloseChannel)
  /\ WF_vars(CloseReturn)
  /\ WF_vars(SelectRecv)
  /\ SF_vars(SelectDying)
  /\ WF_vars(DrainRecv)
  /\ WF_vars(DrainEnd)
  /\ WF_vars(FlushEvents)
  /\ WF_vars(WaitTasks)
  /\ WF_vars(TaskStep)

\* The scheduling with a ticker that keeps ticking: the tick case of the
\* select is ready again and again and so is taken (the choice among ready
\* cases is random); the coordinator goes on with a flush it has begun as
\* soon as a slot is free; every flush task runs to its end, so slots are
\* given back.  Nothing is asked of the callers of Collect and Close.
TickFairSpec ==
  /\ Spec
  /\ SF_vars(SelectTick)
  /\ WF_vars(FlushEvents)
  /\ WF_vars(TaskStep)

\* ------------------------------------------------------ derived quantities
\* The flush tasks that have been admitted and have not finished.
Alive == {i \in 1..Len(taskPc) : taskPc[i] # "finished"}

\* The flush tasks whose HTTP call is still to come or under way.
Pending == {i \in 1..Len(taskPc) : taskPc[i] = "request"}

\* The elements of a sequence.
Range(f) == {f[k] : k \in DOMAIN f}

\* The events held in a map, over all its streams.
MapIds(m) == UNION {Range(m[s]) : s \in DOMAIN m}

\* The events held in the requests of a queue.
QueueIds(q) == UNION {Range(q[k].events) : k \in DOMAIN q}

\* The events handed to flush tasks so far.
FlushedIds == UNION {MapIds(flushed[i].batch) : i \in DOMAIN flushed}

\* The index of the last flush.
LastFlush == Len(flushed)

\* The events merged between flush i-1 and flush i that were collected
\* under stream s, in the order Collect accepted them.
CollectedBetween(i, s) ==
  LET lo == IF i = 1 THEN 0 ELSE flushed[i - 1].upto
      hi == flushed[i].upto
  IN SelectSeq([k \in 1..(hi - lo) |-> lo + k], LAMBDA id : accepted[id] = s)

\* ------------------------------------------------------------------- C1
\* Between two iterations of the coordinator loop (at the select).
C1_BelowBatchSizeAtSelect == pc = "select" => numBuffered < BatchSize

\* One step: the merge of the receive case, the way out of flushEvents, and
\* the hand-off.
C1_SizeFlushStep ==
  /\ (pc = "select" /\ incoming' # incoming /\ Len(incoming') < Len(incoming)
        /\ numBuffered' >= BatchSize)
       => (pc' = "flush" /\ trigger' = "size")
  /\ (pc = "flush" /\ pc' # "flush")
       => (Len(flushed') = Len(flushed) + 1 /\ flushed'[Len(flushed')].by = trigger)
  /\ (Len(flushed') > Len(flushed))
       => (numBuffered' = 0 /\ DOMAIN events' = {})

\* C1: between two iterations of the coordinator loop the buffer holds
\* fewer than BatchSize events; a merge in the receive case that brings the
\* count to BatchSize or more puts the coordinator in flushEvents in that
\* same iteration (trigger "size", not a later tick), it leaves flushEvents
\* only by starting the flush task, and right after the hand-off the live
\* buffer has count 0 and no streams.
C1_SizeFlushImmediate == []C1_BelowBatchSizeAtSelect /\ [][C1_SizeFlushStep]_vars

\* Witness of C1: a size-triggered flush has just handed over a batch that
\* exceeds BatchSize, and the live buffer is empty.
C1_Witness ==
  /\ flushed # <<>>
  /\ flushed[LastFlush].by = "size"
  /\ flushed[LastFlush].n > BatchSize
  /\ pc = "select"
  /\ numBuffered = 0

\* ------------------------------------------------------------------- C2
\* C2: every flush is started by the size trigger, a tick or the shutdown;
\* a flush of a buffer that holds fewer than BatchSize events is started by
\* a tick or by the shutdown, never by the size trigger, and the shutdown
\* flush only after Close has killed the tomb.
C2_FlushOnlyByTrigger ==
  /\ \A i \in DOMAIN flushed :
       /\ flushed[i].by \in {"size", "tick", "shutdown"}
       /\ flushed[i].n < BatchSize => flushed[i].by \in {"tick", "shutdown"}
       /\ flushed[i].by = "shutdown" => dying
  /\ pc = "flush" => trigger \in {"size", "tick", "shutdown"}
  /\ (pc = "flush" /\ numBuffered < BatchSize) => trigger \in {"tick", "shutdown"}

\* Witness of C2: a buffer below BatchSize was flushed by a tick.
C2_Witness ==
  /\ flushed # <<>>
  /\ flushed[1].by = "tick"
  /\ flushed[1].n < BatchSize
  /\ ~dying

\* ------------------------------------------------------------------- C3
\* The running tasks, the slots held and the capacity.
C3_InFlightInv ==
  /\ Cardinality(Alive) <= maxReqsInFlight
  /\ semaphone <= maxReqsInFlight
  /\ Cardinality(Alive) <= semaphone

\* One step: the admission of a task.
C3_AdmitStep == Len(taskPc') > Len(taskPc) => Cardinality(Alive) < maxReqsInFlight

\* C3: the number of flush tasks admitted and not finished never exceeds
\* maxReqsInFlight, each of them holds one slot of the semaphore, and a
\* task is admitted only in a step that starts with a free slot.
C3_InFlightBounded == []C3_InFlightInv /\ [][C3_AdmitStep]_vars

\* Witness of C3: every slot is held by a running task and the coordinator
\* is blocked in flushEvents with the next batch.
C3_Witness ==
  /\ Cardinality(Alive) = maxReqsInFlight
  /\ pc = "flush"
  /\ numBuffered > 0

\* ------------------------------------------------------------------- C4
\* C4: once Close has returned, no flush task has its HTTP call pending or
\* still to issue, and the coordinator has exited (it starts no new task).
C4_CloseAfterRequests ==
  closePc = "returned" => (Pending = {} /\ pc = "exited" /\ wg = 0)

\* Witness of C4: Close has returned after at least one batch was POSTed.
C4_Witness ==
  /\ closePc = "returned"
  /\ flushed # <<>>
  /\ \A i \in DOMAIN posts : posts[i] = 1

\* ------------------------------------------------------------------- C5
\* C5: when Close has returned, the inbound queue is empty, the live buffer
\* holds no event, and every event accepted by a Collect call has been
\* handed to a flush task, under the stream it was collected under.
C5_DrainedOnClose ==
  closePc = "returned" =>
    /\ incoming = <<>>
    /\ numBuffered = 0
    /\ MapIds(events) = {}
    /\ \A k \in DOMAIN accepted :
         \E i \in DOMAIN flushed :
           k \in Range(EventsOf(flushed[i].batch, accepted[k]))

\* Witness of C5: Close has returned after a final flush that carried the
\* events of two requests.
C5_Witness ==
  /\ closePc = "returned"
  /\ flushed # <<>>
  /\ flushed[LastFlush].by = "shutdown"
  /\ nCollects = 2
  /\ Cardinality(MapIds(flushed[LastFlush].batch)) >= 2

\* ------------------------------------------------------------------- C6
\* C6: once Close has killed the tomb and closed the inbound queue, Close
\* eventually returns (under FairSpec, where every flush task's HTTP call
\* completes).
C6_CloseEventuallyReturns == (closePc = "closed") ~> (closePc = "returned")

\* The coordinator's part of C6: it does not stay in the select loop on the
\* closed queue; unless the process has panicked it drains, waits for the
\* tasks and exits, and Close returns.
C6_CloseReturnsUnlessPanicked ==
  (closePc = "closed") ~> (closePc = "returned" \/ panicked)

\* ------------------------------------------------------------------- C7
\* Number of events in the batches handed to flush tasks so far.
RECURSIVE FlushedCount(_)
FlushedCount(i) == IF i = 0 THEN 0 ELSE MapCount(flushed[i].batch) + FlushedCount(i - 1)

\* The events of the requests of a queue, in queue order.
RECURSIVE QueueEvents(_)
QueueEvents(q) == IF q = <<>> THEN <<>> ELSE Head(q).events \o QueueEvents(Tail(q))

\* C7: the inbound queue never holds more than IncomingCap requests (so a
\* send never completes on a full queue), and no accepted request is
\* dropped or overwritten: every accepted event is in exactly one place,
\* the queue, the live buffer or a flushed batch, and the queue holds the
\* latest accepted events in the order they were accepted.
C7_BoundedQueueNoLoss ==
  /\ Len(incoming) <= IncomingCap
  /\ QueueIds(incoming) \cup MapIds(events) \cup FlushedIds = 1..Len(accepted)
  /\ QueueCount(incoming) + MapCount(events) + FlushedCount(Len(flushed)) = Len(accepted)
  /\ LET q == QueueEvents(incoming)
     IN \A k \in DOMAIN q : q[k] = Len(accepted) - Len(q) + k
  /\ \A k \in DOMAIN incoming :
       \A j \in DOMAIN incoming[k].events :
         accepted[incoming[k].events[j]] = incoming[k].stream

\* Witness of C7: the queue is full of requests that carry events, and a
\* further Collect call, still to be made, has nowhere to put its request.
C7_Witness ==
  /\ Len(incoming) = IncomingCap
  /\ QueueCount(incoming) >= 1
  /\ nCollects < MaxCollects
  /\ ~closed

\* ------------------------------------------------------------------- C8
\* The POSTs per batch, and the batches against the buffer and the queue.
C8_PostedAtMostOnce ==
  /\ \A i \in DOMAIN posts : posts[i] <= 1
  /\ FlushedIds \cap (QueueIds(incoming) \cup MapIds(events)) = {}

\* One step: makeRequest of task i returns an error.
C8_FailureStep ==
  \A i \in DOMAIN taskPc :
    (taskPc[i] = "request" /\ (posts'[i] # posts[i] \/ taskPc'[i] # "request")
       /\ lastErr' # "nil")
      => /\ taskPc'[i] = "wgdone"
         /\ UNCHANGED <<incoming, events, numBuffered, flushed, pc>>

\* C8: no batch is POSTed more than once; a batch handed to a flush task
\* never shows up again in the live buffer or the inbound queue; and the
\* step in which makeRequest returns an error changes neither the buffer,
\* the queue nor the list of flushes, and takes the task on to wg.Done
\* (no second attempt).
C8_FailedBatchDiscarded == []C8_PostedAtMostOnce /\ [][C8_FailureStep]_vars

\* Witness of C8: a batch was POSTed once, the call failed, its task has
\* finished, and the live buffer holds later events.
C8_Witness ==
  /\ lastErr \in {"ErrRequestFailed", "ErrServerError"}
  /\ Len(flushed) = 1
  /\ posts[1] = 1
  /\ taskPc[1] = "finished"
  /\ numBuffered > 0

\* ------------------------------------------------------------------- C9
\* Strictly increasing: the events of the sequence are in the order in
\* which Collect accepted them (call order, then argument order).
InCallOrder(seq) == \A a, b \in DOMAIN seq : a < b => seq[a] < seq[b]

C10_BatchGroupsByStream ==
  \A i \in DOMAIN flushed :
    /\ DOMAIN flushed[i].batch \subseteq Streams
    /\ \A s \in Streams : EventsOf(flushed[i].batch, s) = CollectedBetween(i, s)

\* Witness of C10: events of two streams accumulated between two flushes
\* went out together in one batch of the size trigger.
C10_Witness ==
  \E i \in DOMAIN flushed :
    /\ flushed[i].by = "size"
    /\ \A s \in Streams : EventsOf(flushed[i].batch, s) # <<>>

\* ======================================================== Subscription
\* ------------------------------------------------------------ the tomb
\* Mutant: a later Kill replaces the reason already recorded.
KillReasonOverwrite(r, e) == e

\* tomb.kill(e): the first reason is kept, except that nil gives way to the
\* reason of a later kill.
KillReason(r, e) == IF r \in {"ErrStillAlive", "nil"} THEN e ELSE r

\* Mutant: the selects of the loop have no Dying case.
DyingNever == FALSE

\* <-s.tomb.Dying() is ready: the tomb has been killed, by Stop or by the
\* return of start.
Dying == reason # "ErrStillAlive"

\* IsRunning: s.tomb.Alive()
IsRunning == reason = "ErrStillAlive"

\* IsConnected: s.connected
IsConnected == connected

\* ------------------------------------------------------ the status switch
\* The status codes the server answers with in a run: 200, the codes that
\* start lists as retryable, 404, 502 and one code outside all of these.
StatusCodes == {200, 401, 404, 429, 500, 502, 504}

\* Mutant: 404 is not told apart from the other fatal codes.
StatusActionNo404(code) ==
  CASE code = 200              -> "receive"
    [] code \in {429, 500, 504} -> "backoff"
    [] OTHER                   -> "ErrServerError"

\* Mutant: codes outside the switch are retried.
StatusActionRetryOther(code) ==
  CASE code = 200              -> "receive"
    [] code = 404              -> "ErrResourceMissing"
    [] OTHER                   -> "backoff"

\* switch resp.StatusCode: what start does with a response.
StatusAction(code) ==
  CASE code = 200              -> "receive"
    [] code \in {429, 500, 504} -> "backoff"
    [] code = 404              -> "ErrResourceMissing"
    [] OTHER                   -> "ErrServerError"

\* ------------------------------------------------------ the backoff policy
\* b.Multiplier = 2
Multiplier == 2

\* Mutant: the interval is not capped.
IncrementCurrentIntervalNoCap(cur) == cur * Multiplier

\* incrementCurrentInterval: multiply, capped at MaxInterval.
IncrementCurrentInterval(cur) ==
  IF cur * Multiplier >= MaxInterval THEN MaxInterval ELSE cur * Multiplier

\* getRandomValueFromInterval with the default RandomizationFactor 0.5: a
\* value between cur - cur/2 and cur + cur/2, truncated to a whole duration.
RandomizedIntervals(cur) == (cur \div 2)..((3 * cur + 1) \div 2)

\* ---------------------------------------------------------- the scanner
\* The tokens scanLines cuts out of a body, by kind: a zero-length token, a
\* token that is a JSON object, a token that is not.
FrameKinds == {"keepalive", "event", "bad"}

\* len(token) == 0
IsKeepAlive(k) == wire[k] = "keepalive"

\* What json.Unmarshal(token, &event) can do.  On a token whose bytes were
\* overwritten while it was being decoded the result is arbitrary: an error,
\* or an event that is not the one on the wire.
Unmarshal(k, clob) ==
  IF clob THEN {"error", "garbage"}
  ELSE IF wire[k] = "event" THEN {"ok"} ELSE {"error"}

\* Mutant: a keep-alive ends receive.
KeepAliveNextReturn == "backoff"

\* `continue` after a keep-alive: back to the select of receive.
KeepAliveNext == "receive"

\* Mutant: a decode error makes the loop issue a new request.
DecodeErrorNextReconnect == "request"

\* Mutant: a decode error ends receive.
DecodeErrorNextReturn == "backoff"

\* `continue` after a decode error: back to the select of receive.
DecodeErrorNext == "receive"

\* ------------------------------------------------------------- the loop
\* Mutant: start closes s.Events when it returns.
EventsOnReturnClosed(c) == TRUE

\* A return of start: no statement of start touches s.Events, which stays
\* as it is (open, unless Stop has closed it).
EventsOnReturn(c) == c

\* Start: s.tomb.Go(s.start); start builds the request and the policy and
\* calls s.client.Do.
Start ==
  /\ subPanic = "none"
  /\ loopPc = "idle"
  /\ loopPc' = "request"
  /\ requests' = requests + 1
  /\ UNCHANGED <<reason, connected, currentInterval, expired, wait, scanPc,
                 token, clobbered, event, eventsClosed, stopPc, subPanic,
                 lastStatus, nBackoffs, wire, delivered, loopErr, stopErr>>
  /\ UNCHANGED outsideSubscription

\* s.client.Do returns an error: return ErrRequestFailed.  The tomb records
\* the value start returns.
RequestFailed ==
  /\ subPanic = "none"
  /\ loopPc = "request"
  /\ lastStatus' = 0
  /\ loopPc' = "returned"
  /\ loopErr' = "ErrRequestFailed"
  /\ reason' = KillReason(reason, "ErrRequestFailed")
  /\ eventsClosed' = EventsOnReturn(eventsClosed)
  /\ UNCHANGED <<connected, currentInterval, expired, wait, scanPc, token,
                 clobbered, event, stopPc, subPanic, requests,
                 nBackoffs, wire, delivered, stopErr>>
  /\ UNCHANGED outsideSubscription

\* s.client.Do returns a response with status `code`: the switch.  On 200
\* s.connected is set and receive starts its helper goroutine.
Respond(code) ==
  /\ subPanic = "none"
  /\ loopPc = "request"
  /\ lastStatus' = code
  /\ LET a == StatusAction(code)
     IN CASE a = "receive" ->
               /\ connected' = TRUE
               /\ loopPc' = "receive"
               /\ scanPc' = "scan"
               /\ UNCHANGED <<reason, loopErr, eventsClosed>>
          [] a = "backoff" ->
               /\ loopPc' = "backoff"
               /\ UNCHANGED <<reason, loopErr, connected, scanPc, eventsClosed>>
          [] OTHER ->
               /\ loopPc' = "returned"
               /\ loopErr' = a
               /\ reason' = KillReason(reason, a)
               /\ eventsClosed' = EventsOnReturn(eventsClosed)
               /\ UNCHANGED <<connected, scanPc>>
  /\ UNCHANGED <<currentInterval, expired, wait, token, clobbered, event,
                 stopPc, subPanic, requests, nBackoffs, wire, delivered,
                 stopErr>>
  /\ UNCHANGED outsideSubscription

\* The clock of the policy passes MaxElapsedTime (15 minutes by default, not
\* changed by start) while a request or a backoff wait is under way.
ElapsedTimeExceeded ==
  /\ subPanic = "none"
  /\ loopPc \in {"request", "wait"}
  /\ ~expired
  /\ expired' = TRUE
  /\ UNCHANGED <<loopPc, reason, connected, currentInterval, wait, scanPc,
                 token, clobbered, event, eventsClosed, stopPc, subPanic,
                 requests, lastStatus, nBackoffs, wire, delivered, loopErr,
                 stopErr>>
  /\ UNCHANGED outsideSubscription

\* wait = b.NextBackOff(); if wait == backoff.Stop { return ErrTimeout }
NextBackOff ==
  /\ subPanic = "none"
  /\ loopPc = "backoff"
  /\ IF expired
       THEN /\ loopPc' = "returned"
            /\ loopErr' = "ErrTimeout"
            /\ reason' = KillReason(reason, "ErrTimeout")
            /\ eventsClosed' = EventsOnReturn(eventsClosed)
            /\ UNCHANGED <<wait, currentInterval, nBackoffs>>
       ELSE /\ \E w \in RandomizedIntervals(currentInterval) : wait' = w
            /\ currentInterval' = IncrementCurrentInterval(currentInterval)
            /\ nBackoffs' = nBackoffs + 1
            /\ loopPc' = "wait"
            /\ UNCHANGED <<reason, loopErr, eventsClosed>>
  /\ UNCHANGED <<connected, expired, scanPc, token, clobbered, event,
                 stopPc, subPanic, requests, lastStatus, wire, delivered,
                 stopErr>>
  /\ UNCHANGED outsideSubscription

\* select, case <-time.After(wait): round the loop, the next s.client.Do.
WaitElapsed ==
  /\ subPanic = "none"
  /\ loopPc = "wait"
  /\ requests < MaxRequests
  /\ loopPc' = "request"
  /\ requests' = requests + 1
  /\ UNCHANGED <<reason, connected, currentInterval, expired, wait, scanPc,
                 token, clobbered, event, eventsClosed, stopPc, subPanic,
                 lastStatus, nBackoffs, wire, delivered, loopErr, stopErr>>
  /\ UNCHANGED outsideSubscription

\* select, case <-s.tomb.Dying(): return nil
WaitDying ==
  /\ subPanic = "none"
  /\ loopPc = "wait"
  /\ Dying
  /\ loopPc' = "returned"
  /\ loopErr' = "nil"
  /\ reason' = KillReason(reason, "nil")
  /\ eventsClosed' = EventsOnReturn(eventsClosed)
  /\ UNCHANGED <<connected, currentInterval, expired, wait, scanPc, token,
                 clobbered, event, stopPc, subPanic, requests,
                 lastStatus, nBackoffs, wire, delivered, stopErr>>
  /\ UNCHANGED outsideSubscription

\* --------------------------------------------------------------- receive
\* The helper goroutine: scanner.Scan() returns true with a token of kind k.
ScanToken(k) ==
  /\ subPanic = "none"
  /\ scanPc = "scan"
  /\ Len(wire) < MaxFrames
  /\ wire' = Append(wire, k)
  /\ scanPc' = "send"
  /\ UNCHANGED <<loopPc, reason, connected, currentInterval, expired, wait,
                 token, clobbered, event, eventsClosed, stopPc, subPanic,
                 requests, lastStatus, nBackoffs, delivered, loopErr, stopErr>>
  /\ UNCHANGED outsideSubscription

\* The helper goroutine: scanner.Scan() moves or reads data into its buffer
\* while the receive loop is still decoding the token it was handed, whose
\* bytes lie in that buffer.
ScanRefill ==
  /\ subPanic = "none"
  /\ scanPc = "scan"
  /\ loopPc = "decode"
  /\ ~IsKeepAlive(token)
  /\ ~clobbered
  /\ clobbered' = TRUE
  /\ UNCHANGED <<loopPc, reason, connected, currentInterval, expired, wait,
                 scanPc, token, event, eventsClosed, stopPc, subPanic,
                 requests, lastStatus, nBackoffs, wire, delivered, loopErr,
                 stopErr>>
  /\ UNCHANGED outsideSubscription

\* The helper goroutine: scanner.Scan() returns false (the body is exhausted
\* or failed), close(tokenCh), and the goroutine ends.
ScanEnd ==
  /\ subPanic = "none"
  /\ scanPc = "scan"
  /\ scanPc' = "closed"
  /\ UNCHANGED <<loopPc, reason, connected, currentInterval, expired, wait,
                 token, clobbered, event, eventsClosed, stopPc, subPanic,
                 requests, lastStatus, nBackoffs, wire, delivered, loopErr,
                 stopErr>>
  /\ UNCHANGED outsideSubscription

\* select, case token, open := <-tokenCh with open: the helper's send and
\* this receive meet; the helper goes on to its next Scan.
ReceiveToken ==
  /\ subPanic = "none"
  /\ loopPc = "receive"
  /\ scanPc = "send"
  /\ token' = Len(wire)
  /\ clobbered' = FALSE
  /\ scanPc' = "scan"
  /\ loopPc' = "decode"
  /\ UNCHANGED <<reason, connected, currentInterval, expired, wait, event,
                 eventsClosed, stopPc, subPanic, requests, lastStatus,
                 nBackoffs, wire, delivered, loopErr, stopErr>>
  /\ UNCHANGED outsideSubscription

\* The keep-alive test and json.Unmarshal on the token held.
Decode ==
  /\ subPanic = "none"
  /\ loopPc = "decode"
  /\ IF IsKeepAlive(token)
       THEN /\ loopPc' = KeepAliveNext
            /\ UNCHANGED event
       ELSE \E r \in Unmarshal(token, clobbered) :
              CASE r = "ok"      -> event' = token /\ loopPc' = "deliver"
                [] r = "garbage" -> event' = 0 /\ loopPc' = "deliver"
                [] OTHER         -> UNCHANGED event /\ loopPc' = DecodeErrorNext
  /\ token' = 0
  /\ clobbered' = FALSE
  /\ UNCHANGED <<reason, connected, currentInterval, expired, wait, scanPc,
                 eventsClosed, stopPc, subPanic, requests, lastStatus,
                 nBackoffs, wire, delivered, loopErr, stopErr>>
  /\ UNCHANGED outsideSubscription

\* select, case s.Events <- event: the consumer receives the event.  A send
\* on a closed channel panics.
Deliver ==
  /\ subPanic = "none"
  /\ loopPc = "deliver"
  /\ IF eventsClosed
       THEN /\ subPanic' = "send on closed channel"
            /\ UNCHANGED <<loopPc, delivered>>
       ELSE /\ delivered' = Append(delivered, event)
            /\ loopPc' = "receive"
            /\ UNCHANGED subPanic
  /\ UNCHANGED <<reason, connected, currentInterval, expired, wait, scanPc,
                 token, clobbered, event, eventsClosed, stopPc, requests,
                 lastStatus, nBackoffs, wire, loopErr, stopErr>>
  /\ UNCHANGED outsideSubscription

\* Mutant: s.connected is left as it is when receive returns.
DisconnectSkip(c) == c

\* s.connected = false
Disconnect(c) == FALSE

\* Mutant: the policy is not reset after a connection.
ResetIntervalSkip(cur) == cur

\* b.Reset(): the current interval goes back to InitialInterval.
ResetInterval(cur) == InitialInterval

\* receive has returned: s.connected = false; b.Reset(); then the loop goes
\* on to b.NextBackOff().
ReceiveReturns ==
  /\ connected' = Disconnect(connected)
  /\ currentInterval' = ResetInterval(currentInterval)
  /\ expired' = FALSE
  /\ nBackoffs' = 0
  /\ loopPc' = "backoff"

\* select, case token, open := <-tokenCh with !open: return
ReceiveClosed ==
  /\ subPanic = "none"
  /\ loopPc = "receive"
  /\ scanPc = "closed"
  /\ scanPc' = "none"
  /\ ReceiveReturns
  /\ UNCHANGED <<reason, wait, token, clobbered, event, eventsClosed, stopPc,
                 subPanic, requests, lastStatus, wire, delivered, loopErr,
                 stopErr>>
  /\ UNCHANGED outsideSubscription

\* select, case <-s.tomb.Dying(): exited = true; return.  The helper
\* goroutine stays where it is.
ReceiveDying ==
  /\ subPanic = "none"
  /\ loopPc = "receive"
  /\ Dying
  /\ ReceiveReturns
  /\ UNCHANGED <<reason, wait, scanPc, token, clobbered, event, eventsClosed,
                 stopPc, subPanic, requests, lastStatus, wire, delivered,
                 loopErr, stopErr>>
  /\ UNCHANGED outsideSubscription

\* The inner select, case <-s.tomb.Dying(): exited = true; return.  The
\* event is not delivered.
DeliverDying ==
  /\ subPanic = "none"
  /\ loopPc = "deliver"
  /\ Dying
  /\ ReceiveReturns
  /\ UNCHANGED <<reason, wait, scanPc, token, clobbered, event, eventsClosed,
                 stopPc, subPanic, requests, lastStatus, wire, delivered,
                 loopErr, stopErr>>
  /\ UNCHANGED outsideSubscription

\* ------------------------------------------------------------------ Stop
\* Mutant: Stop does not wait for the loop.
WaitReadyAlways(p) == TRUE

\* s.tomb.Wait() returns: the goroutine running start has returned.
WaitReady(p) == p = "returned"

\* Stop: s.tomb.Kill(nil)
StopKill ==
  /\ subPanic = "none"
  /\ stopPc = "idle"
  /\ loopPc # "idle"
  /\ Len(stopErr) < MaxStops
  /\ reason' = KillReason(reason, "nil")
  /\ stopPc' = "wait"
  /\ UNCHANGED <<loopPc, connected, currentInterval, expired, wait, scanPc,
                 token, clobbered, event, eventsClosed, subPanic, requests,
                 lastStatus, nBackoffs, wire, delivered, loopErr, stopErr>>
  /\ UNCHANGED outsideSubscription

\* Stop: err := s.tomb.Wait()
StopWait ==
  /\ subPanic = "none"
  /\ stopPc = "wait"
  /\ WaitReady(loopPc)
  /\ stopErr' = Append(stopErr, reason)
  /\ stopPc' = "close"
  /\ UNCHANGED <<loopPc, reason, connected, currentInterval, expired, wait,
                 scanPc, token, clobbered, event, eventsClosed, subPanic,
                 requests, lastStatus, nBackoffs, wire, delivered, loopErr>>
  /\ UNCHANGED outsideSubscription

\* Stop: close(s.Events); return err.  Closing a closed channel panics.
StopClose ==
  /\ subPanic = "none"
  /\ stopPc = "close"
  /\ IF eventsClosed
       THEN subPanic' = "close of closed channel" /\ UNCHANGED <<eventsClosed, stopPc>>
       ELSE eventsClosed' = TRUE /\ stopPc' = "idle" /\ UNCHANGED subPanic
  /\ UNCHANGED <<loopPc, reason, connected, currentInterval, expired, wait,
                 scanPc, token, clobbered, event, requests, lastStatus,
                 nBackoffs, wire, delivered, loopErr, stopErr>>
  /\ UNCHANGED outsideSubscription

\* The number of Stop calls that have returned.
StopsReturned == IF stopPc = "close" THEN Len(stopErr) - 1 ELSE Len(stopErr)

\* ------------------------------------------- specification of Subscription
LoopStep ==
  \/ Start
  \/ RequestFailed
  \/ \E code \in StatusCodes : Respond(code)
  \/ ElapsedTimeExceeded
  \/ NextBackOff
  \/ WaitElapsed
  \/ WaitDying

ReceiveStep ==
  \/ \E k \in FrameKinds : ScanToken(k)
  \/ ScanRefill
  \/ ScanEnd
  \/ ReceiveToken
  \/ Decode
  \/ Deliver
  \/ ReceiveClosed
  \/ ReceiveDying
  \/ DeliverDying

StopStep ==
  \/ StopKill
  \/ StopWait
  \/ StopClose

SubNext == LoopStep \/ ReceiveStep \/ StopStep

SubSpec == Init /\ [][SubNext]_subVars

\* Fairness of the scheduling inside the Subscription: a goroutine that can
\* take its next statement takes it, and a select whose Dying case is ready
\* again and again takes it (the choice among ready cases is random).  No
\* fairness is asked of the server (a response, a frame, the end of the
\* body), of the consumer of s.Events or of the timer of time.After.
FairSubSpec ==
  /\ SubSpec
  /\ WF_subVars(NextBackOff)
  /\ WF_subVars(Decode)
  /\ SF_subVars(WaitDying)
  /\ SF_subVars(ReceiveDying)
  /\ SF_subVars(DeliverDying)
  /\ WF_subVars(StopWait)
  /\ WF_subVars(StopClose)

\* FairSubSpec, and the helper goroutine of receive at its best: a Scan
\* that can return false does so unless it returns a token first (the body
\* ends, or start closes it), and the receive loop takes a token offered
\* while it is at its select.
HelperFairSpec ==
  /\ FairSubSpec
  /\ WF_subVars(ScanEnd)
  /\ WF_subVars(ReceiveToken)

\* --------------------------------------------- derived (Subscription)
\* A step in which s.client.Do returns a response with status `code` and
\* start acts on it.
Responded(code) == loopPc = "request" /\ loopPc' # "request" /\ lastStatus' = code

\* A step in which s.client.Do returns an error.
TransportFailed == loopPc = "request" /\ loopPc' # "request" /\ lastStatus' = 0

\* Stop has not been called.
NotStopped == stopPc = "idle" /\ stopErr = <<>>

\* ------------------------------------------------------------------ C11
\* The codes listed in the switch as retryable lead to the backoff
\* computation and record no terminal error.
C11_ListedCodesBackOff ==
  [][\A code \in {429, 500, 504} :
       Responded(code) => (loopPc' = "backoff" /\ loopErr' = "none")]_subVars

\* C11: a response with status 429, 500, 502 or 504 does not end the
\* reconnect loop: the loop goes on to the backoff computation and records
\* no terminal error.
C11_RetryableBacksOff ==
  [][\A code \in {429, 500, 502, 504} :
       Responded(code) => (loopPc' = "backoff" /\ loopErr' = "none")]_subVars

\* ------------------------------------------------------------------ C12
\* The statement of C12 as written, for a run in which Stop is not called:
\* after a 500 response IsRunning stays true and the loop is computing the
\* delay, waiting, or issuing the next request.
C12_ServerErrorKeepsRunning ==
  (lastStatus = 500 /\ NotStopped)
    => (IsRunning /\ loopPc \in {"backoff", "wait", "request"})

\* One step of the loop after a 404 or a 500 response.
C12_Step ==
  /\ Responded(404)
       => /\ loopPc' = "returned"
          /\ loopErr' = "ErrResourceMissing"
          /\ loopErr' \notin {"ErrServerError", "ErrRequestFailed", "ErrTimeout"}
          /\ ~IsRunning'
  /\ Responded(500)
       => /\ loopPc' = "backoff"
          /\ loopErr' = "none"
          /\ IsRunning' = IsRunning
  /\ (loopPc = "backoff" /\ loopPc' # "backoff")
       => IF expired
            THEN loopPc' = "returned" /\ loopErr' = "ErrTimeout" /\ ~IsRunning'
            ELSE loopPc' = "wait" /\ loopErr' = "none" /\ IsRunning' = IsRunning
  /\ (loopPc = "wait" /\ loopPc' # "wait")
       => \/ loopPc' = "request" /\ requests' = requests + 1 /\ IsRunning' = IsRunning
          \/ Dying /\ loopPc' = "returned" /\ loopErr' = "nil"

\* C12 (amended): a 404 response ends the loop with ErrResourceMissing, an
\* error different from the server-error, request-failed and timeout errors,
\* and IsRunning becomes false; a 500 response by itself leaves IsRunning as
\* it was and leads to the backoff computation, which ends the loop with
\* ErrTimeout when the policy is exhausted and otherwise is followed by the
\* backoff wait and, unless the wait is cancelled, by the next request.
C12_MissingStopsServerErrorRetries == [][C12_Step]_subVars

\* Witness of C12: the first request met a 500, the backoff wait has elapsed
\* and the second request is under way, with IsRunning still true.
C12_Witness ==
  /\ lastStatus = 500
  /\ requests = 2
  /\ nBackoffs = 1
  /\ loopPc = "request"
  /\ IsRunning

\* ------------------------------------------------------------------ C13
\* One step: a status outside 200, 404 and the retryable codes, or a
\* transport error; and every step after start has returned.
C13_Step ==
  /\ \A code \in StatusCodes \ {200, 404, 429, 500, 502, 504} :
       Responded(code) => (loopPc' = "returned" /\ loopErr' = "ErrServerError")
  /\ TransportFailed => (loopPc' = "returned" /\ loopErr' = "ErrRequestFailed")
  /\ loopPc = "returned" => (loopPc' = "returned" /\ requests' = requests)

\* C13: a response whose status is none of 200, 404 and the retryable codes
\* ends the loop with ErrServerError, a transport error ends it with
\* ErrRequestFailed, and once the loop has ended no further request is
\* issued.
C13_OtherStatusIsFatal == [][C13_Step]_subVars

\* Witness of C13: the second request met a 401 and the loop has returned
\* ErrServerError.
C13_Witness ==
  /\ requests = 2
  /\ lastStatus = 401
  /\ loopPc = "returned"
  /\ loopErr = "ErrServerError"

\* ------------------------------------------------------------------ C14
\* Every Stop call returns the value start returned; start returns nil only
\* after a Kill, and the tomb holds the value start returned.
C14_StopInv ==
  /\ \A i \in DOMAIN stopErr : stopErr[i] = loopErr
  /\ loopPc = "returned" => (reason = loopErr /\ loopErr # "none")
  /\ loopErr = "nil" => ~NotStopped
  /\ loopPc # "returned" => loopErr = "none"

\* One step: the terminal outcome, once recorded, does not change.
C14_Step == loopErr # "none" => (loopErr' = loopErr /\ reason' = reason)

\* C14: Stop returns the error start ended with (on a 404, another fatal
\* status, a transport error or the exhaustion of the policy) and nil when
\* start ended on the cancellation requested by Stop; the outcome is
\* recorded once and never changes.
C14_StopReturnsLoopError == []C14_StopInv /\ [][C14_Step]_subVars

\* Witness of C14: the first request met a 404 and Stop has returned
\* ErrResourceMissing and closed Events.
C14_Witness ==
  /\ requests = 1
  /\ lastStatus = 404
  /\ stopErr = <<"ErrResourceMissing">>
  /\ stopPc = "idle"
  /\ eventsClosed

\* ------------------------------------------------------------------ C15
\* Stop has returned only if start has returned and Events is closed; Events
\* is closed only after start has returned; no send met the closed channel.
C15_StopInv ==
  /\ StopsReturned >= 1 => (loopPc = "returned" /\ eventsClosed)
  /\ eventsClosed => loopPc = "returned"
  /\ subPanic # "send on closed channel"

\* One step: nothing is received from Events once it is closed.
C15_Step == eventsClosed => delivered' = delivered

\* C15: Stop returns only after the goroutine running start has returned;
\* when Stop returns Events is closed; and no event is sent on Events after
\* it was closed, in any interleaving of the loop and Stop.
C15_StopAfterLoopExit == []C15_StopInv /\ [][C15_Step]_subVars

\* Witness of C15: an event was delivered, Stop cancelled the loop, which
\* returned nil, and Stop has returned with Events closed.
C15_Witness ==
  /\ StopsReturned = 1
  /\ delivered # <<>>
  /\ loopErr = "nil"
  /\ eventsClosed

\* ------------------------------------------------------------------ C16
\* The Stop calls that got past tomb.Wait all got the same error.
C16_SameError == \A i, j \in DOMAIN stopErr : stopErr[i] = stopErr[j]

\* C16: a second Stop call on a stopped Subscription does not panic: Events
\* is never closed twice.
C16_SecondStopSafe == subPanic # "close of closed channel"

\* ------------------------------------------------------------------ C17
\* The tokens of the wire that decode, in wire order.
DecodableFrames ==
  SelectSeq([k \in 1..Len(wire) |-> k], LAMBDA k : wire[k] = "event")

\* a is an initial part of b.
IsPrefix(a, b) == Len(a) <= Len(b) /\ a = SubSeq(b, 1, Len(a))

\* C17: as long as the Subscription has not been cancelled and has met no
\* terminal error, the events received from Events are the decodable
\* non-empty tokens of the wire, each once and in wire order.
C17_DeliveredInWireOrder == IsRunning => IsPrefix(delivered, DecodableFrames)

\* ------------------------------------------------------------------ C18
\* No delivered event comes from a zero-length token.
C18_NotDelivered ==
  \A i \in DOMAIN delivered :
    delivered[i] # 0 => wire[delivered[i]] # "keepalive"

\* One step: the receive loop deals with a zero-length token.
C18_Step ==
  (loopPc = "decode" /\ IsKeepAlive(token) /\ loopPc' # "decode")
    => /\ loopPc' = "receive"
       /\ connected'
       /\ delivered' = delivered
       /\ UNCHANGED <<scanPc, wire, reason, loopErr, currentInterval, requests>>

\* C18: a zero-length token is a keep-alive: it is never delivered on
\* Events, receive stays in its select with the connection up, and the
\* tokens after it are still handed over and decoded.
C18_KeepAliveSkipped == []C18_NotDelivered /\ [][C18_Step]_subVars

\* Witness of C18: the first token of the connection was a keep-alive and
\* the token after it has been delivered.
C18_Witness ==
  /\ Len(wire) = 2
  /\ wire[1] = "keepalive"
  /\ delivered = <<2>>
  /\ connected

\* ------------------------------------------------------------------ C20
\* 2 to the power n.
RECURSIVE Pow2(_)
Pow2(n) == IF n <= 0 THEN 1 ELSE 2 * Pow2(n - 1)

\* The interval the claim gives for the k-th delay: InitialInterval doubled
\* k-1 times, capped at MaxInterval.
NominalInterval(k) ==
  IF InitialInterval * Pow2(k - 1) >= MaxInterval
    THEN MaxInterval
    ELSE InitialInterval * Pow2(k - 1)

\* The statement of C20 as written: the delay being waited is InitialInterval
\* doubled once per earlier delay and is at most MaxInterval.
C20_ExactDoubling ==
  loopPc = "wait" => (wait = NominalInterval(nBackoffs) /\ wait <= MaxInterval)

\* C20 (amended): the k-th delay computed since the policy was last reset
\* lies within half of the nominal interval on either side of it (rounded to
\* a whole duration), the nominal interval being InitialInterval doubled k-1
\* times and capped at MaxInterval; so no delay exceeds one and a half times
\* MaxInterval.
C20_DelayWithinRandomizedInterval ==
  loopPc = "wait" =>
    /\ nBackoffs >= 1
    /\ 2 * wait >= NominalInterval(nBackoffs) - 1
    /\ 2 * wait <= 3 * NominalInterval(nBackoffs) + 1
    /\ 2 * wait <= 3 * MaxInterval + 1

\* Witness of C20: the third consecutive retryable failure; the nominal
\* interval has reached MaxInterval and the delay drawn is above it.
C20_Witness ==
  /\ loopPc = "wait"
  /\ requests = 3
  /\ nBackoffs = 3
  /\ wire = <<>>
  /\ lastStatus \in {429, 500, 504}
  /\ wait > MaxInterval

\* ======================================================== frame scanner
\* The bytes of a run: a payload byte, carriage return, line feed.
Bytes == {"A", "\r", "\n"}

\* The first input of the scanner's test property.
ExampleFrames == <<"A", "\r", "\n", "B", "\r", "\n", "C">>

\* The second input: two delimiters and nothing else.
ExampleKeepAlives == <<"\r", "\n", "\r", "\n">>

\* The byte strings a run starts from.
Inputs ==
  UNION {[1..n -> Bytes] : n \in 0..MaxBuf} \cup {ExampleFrames, ExampleKeepAlives}

\* bytes.Index(data, "\r\n"), searching from position k: the offset of the
\* first occurrence, -1 if there is none.
RECURSIVE IndexFrom(_, _)
IndexFrom(d, k) ==
  IF k + 1 > Len(d) THEN -1
  ELSE IF d[k] = "\r" /\ d[k + 1] = "\n" THEN k - 1
  ELSE IndexFrom(d, k + 1)

\* bytes.Index(data, []byte(delimiter))
DelimIndex(d) == IndexFrom(d, 1)

\* bytes.TrimLeft(data, "\n"): nil when nothing is left.
RECURSIVE TrimLeftLF(_)
TrimLeftLF(d) ==
  IF d = <<>> THEN <<>>
  ELSE IF Head(d) = "\n" THEN TrimLeftLF(Tail(d))
  ELSE d

\* Mutant: the delimiter is left in the buffer.
AdvancePastFrame(i) == i

\* i + 2: the frame and its two-byte delimiter.
AdvancePast(i) == i + 2

\* scanLines(data, atEOF): advance, and the token (ok is false for nil).
scanLines(d, eof) ==
  IF eof /\ Len(d) = 0
    THEN [advance |-> 0, ok |-> FALSE, token |-> <<>>]
    ELSE LET i == DelimIndex(d)
         IN IF i >= 0
              THEN [advance |-> AdvancePast(i), ok |-> TRUE, token |-> SubSeq(d, 1, i)]
              ELSE IF eof
                THEN LET t == TrimLeftLF(d)
                     IN [advance |-> Len(t), ok |-> t # <<>>, token |-> t]
                ELSE [advance |-> 0, ok |-> FALSE, token |-> <<>>]

\* bufio.NewScanner(body) with some bytes already read, at the end of the
\* stream or not.
ScanInit ==
  /\ CollectorInit
  /\ SubInit
  /\ data \in Inputs
  /\ atEOF \in BOOLEAN
  /\ scPc = (IF data = <<>> /\ ~atEOF THEN "read" ELSE "split")
  /\ tokens = <<>>
  /\ consumed = 0
  /\ input = data

\* scanner.Scan calls the split function on the unconsumed bytes: a token is
\* yielded and the bytes advanced over are dropped; without a token Scan
\* reads more, or returns false at the end of the stream.
Split ==
  /\ scPc = "split"
  /\ LET r == scanLines(data, atEOF)
     IN /\ data' = SubSeq(data, r.advance + 1, Len(data))
        /\ consumed' = consumed + r.advance
        /\ IF r.ok
             THEN /\ tokens' = Append(tokens, r.token)
                  /\ scPc' = (IF data' = <<>> /\ ~atEOF THEN "read" ELSE "split")
             ELSE /\ tokens' = tokens
                  /\ scPc' = (IF atEOF THEN "done" ELSE "read")
  /\ UNCHANGED <<atEOF, input>>
  /\ UNCHANGED outsideScanner

\* scanner.Scan reads one more byte from the body.
ReadByte(b) ==
  /\ scPc = "read"
  /\ Len(input) < MaxBuf
  /\ data' = Append(data, b)
  /\ input' = Append(input, b)
  /\ scPc' = "split"
  /\ UNCHANGED <<atEOF, tokens, consumed>>
  /\ UNCHANGED outsideScanner

\* scanner.Scan meets the end of the body.
ReadEOF ==
  /\ scPc = "read"
  /\ atEOF' = TRUE
  /\ scPc' = "split"
  /\ UNCHANGED <<data, tokens, consumed, input>>
  /\ UNCHANGED outsideScanner

ScanNext ==
  \/ Split
  \/ \E b \in Bytes : ReadByte(b)
  \/ ReadEOF

ScanSpec == ScanInit /\ [][ScanNext]_scanVars

\* ------------------------------------------------------------------ C19
\* The delimiter occurs in d at offset i.
DelimAt(d, i) == i + 2 <= Len(d) /\ d[i + 1] = "\r" /\ d[i + 2] = "\n"

\* The delimiter occurs in d.
HasDelim(d) == \E i \in 0..Len(d) : DelimAt(d, i)

\* One call of scanLines, by the rules of the claim.
C19_Step ==
  scPc = "split" =>
    /\ (data = <<>> /\ atEOF)
         => (tokens' = tokens /\ consumed' = consumed /\ scPc' = "done")
    /\ \A i \in 0..Len(data) :
         (DelimAt(data, i) /\ \A j \in 0..(i - 1) : ~DelimAt(data, j))
           => /\ tokens' = Append(tokens, SubSeq(data, 1, i))
              /\ consumed' = consumed + i + 2
              /\ data' = SubSeq(data, i + 3, Len(data))
    /\ (~HasDelim(data) /\ ~atEOF)
         => (tokens' = tokens /\ consumed' = consumed /\ data' = data
             /\ scPc' = "read")

\* The two inputs of the claim, scanned to the end of the stream.
C19_Examples ==
  (scPc = "done" /\ atEOF) =>
    /\ input = ExampleFrames
         => (tokens = <<<<"A">>, <<"B">>, <<"C">>>> /\ consumed = 7 /\ data = <<>>)
    /\ input = ExampleKeepAlives
         => (tokens = <<<<>>, <<>>>> /\ consumed = 4 /\ data = <<>>)

\* C19: scanLines yields nothing for an empty buffer at the end of the
\* stream; when the delimiter first occurs at offset i it consumes i + 2
\* bytes and yields the bytes before it; with no delimiter and not at the
\* end of the stream it consumes nothing and yields nothing.  Scanned to the
\* end, "A\r\nB\r\nC" yields A, B, C and is consumed whole, and "\r\n\r\n"
\* yields two zero-length tokens.
C19_ScanLinesRules == []C19_Examples /\ [][C19_Step]_scanVars

\* Witness of C19: the first example has been scanned to the end.
C19_Witness ==
  /\ input = ExampleFrames
  /\ scPc = "done"
  /\ Len(tokens) = 3
  /\ consumed = Len(input)

\* ------------------------------------------------- C21: reset after a 200
\* The loop is in the delay that follows a connection: the last response
\* was a 200, receive has returned and b.NextBackOff() has been called.
AfterConnection == loopPc = "wait" /\ lastStatus = 200

\* C21 as stated: the delay waited after a 200 connection has ended is
\* InitialInterval itself.
C21_DelayIsInitialInterval == AfterConnection => wait = InitialInterval

\* C21: a 200 connection resets the backoff policy: the delay waited after
\* the connection has ended is the first delay of the policy, drawn from the
\* randomized interval around InitialInterval, however far the interval had
\* escalated before the connection.
C21_DelayAroundInitialInterval ==
  AfterConnection =>
    /\ nBackoffs = 1
    /\ wait \in RandomizedIntervals(InitialInterval)
    /\ currentInterval = IncrementCurrentInterval(InitialInterval)

\* A connection made on the third request has ended and the loop waits.
C21_Witness ==
  /\ AfterConnection
  /\ requests = MaxRequests
  /\ ~connected
  /\ wait = InitialInterval + 1

\* ------------------------------------------------- C22: Stop is prompt
\* Stop has killed the tomb and waits, while the loop is in one of its three
\* blocking selects: the backoff delay, the delivery of an event, the wait
\* for the next frame.
StopCalledWhileBlocked ==
  /\ stopPc = "wait"
  /\ loopPc \in {"wait", "deliver", "receive"}

\* The loop has returned and the Stop call has returned.
StopReturned == loopPc = "returned" /\ stopPc = "idle" /\ Len(stopErr) >= 1

InReceive == loopPc \in {"receive", "decode", "deliver"}

\* C23: IsRunning() is true after Start() for as long as the loop has not
\* returned and Stop has not been called; IsConnected() is true only while
\* the loop is inside receive on a 200 response; once a Stop call has
\* returned both are false.
C23_RunningAndConnected ==
  /\ (loopPc # "idle" /\ loopErr = "none" /\ NotStopped) => IsRunning
  /\ IsConnected => (InReceive /\ lastStatus = 200)
  /\ StopsReturned >= 1 => (~IsConnected /\ ~IsRunning)

\* Stop was called while the loop was connected and had delivered an event,
\* and has returned.
C23_Witness ==
  /\ StopReturned
  /\ requests = 1
  /\ lastStatus = 200
  /\ Len(delivered) = 1
  /\ loopErr = "nil"
  /\ ~IsConnected
  /\ ~IsRunning

\* ------------------------------------------------ C24: count and map agree
\* The running total is the number of events in the map.
C24_Inv == numBuffered = MapCount(events)

\* A step that starts a flush leaves the map and the count empty.
C24_Step ==
  Len(flushed') > Len(flushed) => (events' = EmptyMap /\ numBuffered' = 0)

\* C24: in every state of the coordinator numBuffered is the sum of the
\* lengths of the per-stream slices of events, and the step that starts a
\* flush resets both the map and the count.
C24_CountMatchesMap == []C24_Inv /\ [][C24_Step]_vars

\* After a flush the buffer has been filled again.
C24_Witness ==
  /\ Len(flushed) = 1
  /\ numBuffered = 1
  /\ MapCount(events) = 1
  /\ flushed[1].n >= 1

\* ------------------------------------------------ C25: no shared map
\* What each flush task holds is the batch as it was handed over, and the
\* live buffer is a map object no flush task holds.
C25_Inv ==
  /\ liveObj \notin DOMAIN inflight
  /\ \A i \in DOMAIN inflight : inflight[i] = flushed[i].batch

\* A step of a flush task leaves the live buffer alone.
C25_Step ==
  (\E i \in DOMAIN taskPc : taskPc'[i] # taskPc[i]) =>
    UNCHANGED <<events, numBuffered, liveObj>>

\* C25: once a batch has been handed to a flush task the live buffer is a
\* new map object: requests merged after the hand-off never change what a
\* flush task holds, and a step of a flush task never changes the live
\* buffer.
C25_NoAliasing == []C25_Inv /\ [][C25_Step]_vars

\* A request is merged into the live buffer while the flush task of the
\* batch before it is still at its HTTP call.
C25_Witness ==
  /\ Len(flushed) = 1
  /\ taskPc[1] = "request"
  /\ numBuffered >= 1
  /\ inflight[1] = flushed[1].batch
  /\ inflight[1] # events

\* ------------------------------------------------ C26: the final flush
\* The coordinator has taken the Dying case of its select.
ObservedShutdown ==
  pc \in {"drain", "wait", "exited"} \/ (pc = "flush" /\ trigger = "shutdown")

\* The flushes started from the shutdown branch.
ShutdownFlushes == {i \in DOMAIN flushed : flushed[i].by = "shutdown"}

\* At most one flush comes from the shutdown branch; it is the last flush,
\* it is not empty and it ends on the last event taken off the channel; and
\* once the drain is over nothing is left in the channel or in the buffer.
C26_Inv ==
  /\ Cardinality(ShutdownFlushes) <= 1
  /\ \A i \in ShutdownFlushes :
       /\ i = Len(flushed)
       /\ flushed[i].n > 0
       /\ flushed[i].upto = Len(accepted)
       /\ pc \in {"wait", "exited"}
  /\ pc \in {"wait", "exited"} =>
       /\ incoming = <<>>
       /\ numBuffered = 0
       /\ FlushedIds = 1..Len(accepted)

\* Once the coordinator has observed the shutdown, a flush it starts is the
\* final flush, and it starts none after that one.
C26_Step ==
  (ObservedShutdown /\ Len(flushed') > Len(flushed)) =>
    /\ flushed'[Len(flushed')].by = "shutdown"
    /\ ShutdownFlushes = {}

\* C26: after the coordinator has observed the shutdown signal it starts at
\* most one more flush: the final flush, started only if the buffer is not
\* empty after the drain and holding everything drained; no flush by the
\* timer or by the size of the buffer happens after that point.
C26_OneFinalFlush == []C26_Inv /\ [][C26_Step]_vars

\* A flush by the timer, then requests drained at shutdown and flushed by
\* the final flush.
C26_Witness ==
  /\ Len(flushed) = 2
  /\ flushed[1].by = "tick"
  /\ flushed[2].by = "shutdown"
  /\ flushed[2].n >= 1
  /\ pc = "exited"

\* ------------------------------------------------ C27: the limiter at Close
\* The slots held in c.semaphone are those of the flush tasks admitted and
\* not yet finished, and the counter of c.wg is the number of those that
\* have not yet called Done.
C27_Counters ==
  /\ semaphone = Cardinality(Alive)
  /\ semaphone \in 0..maxReqsInFlight
  /\ wg = Cardinality({i \in DOMAIN taskPc : taskPc[i] \in {"request", "wgdone"}})

\* C27 as stated: when Close() has returned the limiter holds no slots.
C27_NoSlotsAfterClose == closePc = "returned" => semaphone = 0

\* C27: a slot of the limiter is taken when a flush task is admitted and
\* given back as the last statement of the task; the shutdown barrier waits
\* for the WaitGroup, whose Done comes before the slot is given back: when
\* Close() has returned every flush task has finished its HTTP call and
\* called Done, and a slot still held is that of a task with nothing left
\* to do but give it back.
C27_TasksDoneAfterClose ==
  /\ C27_Counters
  /\ closePc = "returned" =>
       /\ wg = 0
       /\ \A i \in DOMAIN taskPc : taskPc[i] \in {"release", "finished"}

\* Close() has returned while the last flush task still holds its slot.
C27_Witness ==
  /\ closePc = "returned"
  /\ semaphone = 1
  /\ wg = 0
  /\ taskPc[Len(taskPc)] = "release"

\* ------------------------------------------------ C28: the tick flushes
\* The identities an event can have within the bounds.
EventIds == 1..(MaxCollects * MaxReqLen)

\* C28: with ticks that keep occurring and slots that are given back, every
\* event merged into the buffer is in the end handed to a flush task, also
\* when BatchSize is never reached and as long as Close() is not called.
C28_BufferedIsFlushed ==
  \A k \in EventIds :
    (k \in MapIds(events) /\ closePc = "idle")
      ~> (k \in FlushedIds \/ closePc # "idle")

\* A single Collect of one event, flushed by a tick, Close not called.
C28_Witness ==
  /\ nCollects = 1
  /\ accepted = <<"s0">>
  /\ Len(flushed) = 1
  /\ flushed[1].by = "tick"
  /\ flushed[1].batch = [s \in {"s0"} |-> <<1>>]
  /\ closePc = "idle"

\* ------------------------------------------------ C29: undecodable frames
\* The step in which receive is done with the non-empty frame it holds.
DecodesFrame ==
  /\ loopPc = "decode"
  /\ loopPc' # "decode"
  /\ token \in DOMAIN wire
  /\ ~IsKeepAlive(token)

\* A frame that is no JSON object, decoded from intact bytes, is not
\* delivered; and a decode that leads to no delivery leaves the loop in
\* receive, connected and running, with nothing delivered and no error.
C29_Step ==
  DecodesFrame =>
    /\ (wire[token] = "bad" /\ ~clobbered) => loopPc' # "deliver"
    /\ loopPc' # "deliver" =>
         /\ loopPc' = "receive"
         /\ UNCHANGED <<delivered, event, connected, reason, loopErr,
                        nBackoffs, currentInterval, wait, scanPc, wire>>

\* No frame that is no JSON object is ever delivered.
C29_Inv ==
  \A i \in DOMAIN delivered :
    delivered[i] # 0 => wire[delivered[i]] = "event"

\* C29: a non-empty frame that fails JSON decoding is skipped and nothing
\* else happens: nothing is delivered for it, the loop stays in receive
\* with no error recorded, and frames after it are decoded and delivered.
C29_DecodeErrorSkipsFrame == []C29_Inv /\ [][C29_Step]_subVars

\* An undecodable frame, then an event that is delivered, still connected.
C29_Witness ==
  /\ wire = <<"bad", "event">>
  /\ delivered = <<2>>
  /\ loopPc = "receive"
  /\ IsConnected
  /\ IsRunning
  /\ requests = 1

\* ------------------------------------------------ C30: the last line
\* C30: at the end of the stream, with no delimiter in a non-empty buffer,
\* a call of scanLines consumes the whole buffer, line feeds stripped from
\* the front included, and what it yields is the buffer without those line
\* feeds, so that the bytes yielded are not scanned again.
C30_Step ==
  (scPc = "split" /\ atEOF /\ data # <<>> /\ ~HasDelim(data)) =>
    /\ consumed' = consumed + Len(data)
    /\ data' = <<>>
    /\ TrimLeftLF(data) # <<>> => tokens' = Append(tokens, TrimLeftLF(data))

C30_LastLineConsumedWhole == [][C30_Step]_scanVars

\* ------------------------------------------------ C31: exhaustion
\* One step of the loop, `codes` being the statuses taken as retryable: an
\* exhausted policy ends the loop with ErrTimeout, with no wait and no
\* further request; a retryable status leads to the backoff computation,
\* which leads to the wait unless the policy is exhausted.
C31_StepFor(codes) ==
  /\ (loopPc = "backoff" /\ loopPc' # "backoff" /\ expired)
       => /\ loopPc' = "returned"
          /\ loopErr' = "ErrTimeout"
          /\ UNCHANGED <<requests, wait, nBackoffs>>
  /\ \A code \in codes :
       Responded(code) => (loopPc' = "backoff" /\ loopErr' = "none")
  /\ (loopPc = "backoff" /\ loopPc' # "backoff" /\ ~expired)
       => (loopPc' = "wait" /\ loopErr' = "none")

\* After the loop has ended with ErrTimeout no request is issued and every
\* Stop call that returns has that error.
C31_Inv ==
  loopErr = "ErrTimeout" =>
    /\ loopPc = "returned"
    /\ \A i \in DOMAIN stopErr : stopErr[i] = "ErrTimeout"

\* The statement for the statuses the switch of start lists as retryable.
C31_ListedCodesOnly == []C31_Inv /\ [][C31_StepFor({429, 500, 504})]_subVars

\* C31: when the backoff policy signals exhaustion the loop ends with
\* ErrTimeout without waiting or issuing another request, and Stop() then
\* returns that error; as long as the policy does not signal exhaustion a
\* retryable failure (429, 500, 502, 504) never ends the loop.
C31_ExhaustionEndsLoop ==
  []C31_Inv /\ [][C31_StepFor({429, 500, 502, 504})]_subVars

\* ------------------------------------------------ C32: one frame at a time
\* The frames read off the wire and neither delivered nor discarded yet: the
\* one the helper goroutine is handing over, and the one the receive loop
\* is decoding or delivering.
FramesInHand ==
  (IF scanPc = "send" THEN 1 ELSE 0)
    + (IF loopPc \in {"decode", "deliver"} THEN 1 ELSE 0)

\* C32: the next frame is not read off the wire until the consumer has
\* taken the event decoded before it: at most one frame is ever read and not
\* yet delivered or discarded.
C32_OneFrameInHand == FramesInHand <= 1

\* ------------------------------------------------ C33: the state machine
\* The state of the reconnect loop, in the terms of the claim.
StateOf(p) ==
  CASE p = "idle"                              -> "Idle"
    [] p = "request"                           -> "Connecting"
    [] p \in {"receive", "decode", "deliver"}  -> "Connected"
    [] p \in {"backoff", "wait"}               -> "BackingOff"
    [] OTHER                                   -> "Stopped"

\* The state changes the claim lists.
Transitions ==
  {<<"Idle", "Connecting">>, <<"Connecting", "Connected">>,
   <<"Connected", "BackingOff">>, <<"Connecting", "BackingOff">>,
   <<"BackingOff", "Connecting">>, <<"Connecting", "Stopped">>,
   <<"Connected", "Stopped">>, <<"BackingOff", "Stopped">>}

\* One step: the state stays or changes along a listed transition; in
\* Stopped no request is issued, no frame decoded and no event delivered.
C33_Step ==
  /\ StateOf(loopPc') # StateOf(loopPc)
       => <<StateOf(loopPc), StateOf(loopPc')>> \in Transitions
  /\ StateOf(loopPc) = "Stopped"
       => /\ StateOf(loopPc') = "Stopped"
          /\ UNCHANGED <<requests, lastStatus, token, event, delivered,
                         connected, loopErr>>

\* C33: every state change of the reconnect loop is one of Idle to
\* Connecting, Connecting to Connected, Connected to BackingOff, Connecting
\* to BackingOff, BackingOff to Connecting, or Connecting, Connected or
\* BackingOff to Stopped; Stopped is terminal: no further request, no frame
\* decoded, no event delivered.
C33_StateMachine == [][C33_Step]_subVars

\* A run through Connecting, Connected, BackingOff and Connecting again that
\* has ended in Stopped on a 404.
C33_Witness ==
  /\ StateOf(loopPc) = "Stopped"
  /\ requests = 2
  /\ lastStatus = 404
  /\ Len(delivered) = 1
  /\ nBackoffs = 1

\* ------------------------------------------------ C34: Collect and Close
\* C34: a Collect call that races with Close() or follows it never sends on
\* the inbound queue once Close() has closed it: no Collect call panics.
C34_CollectNeverPanics == ~panicked

\* ------------------------------------------------ C35: at most one batch
\* C35: no event is in two flush batches, nor twice in one, nor still in the
\* live buffer once it is in a batch, whichever of the size trigger, the
\* tick and the shutdown drain started the flushes.
C35_AtMostOneBatch ==
  /\ \A i, j \in DOMAIN flushed :
       i # j => MapIds(flushed[i].batch) \cap MapIds(flushed[j].batch) = {}
  /\ FlushedCount(Len(flushed)) = Cardinality(FlushedIds)
  /\ MapIds(events) \cap FlushedIds = {}

\* Two flushes with events, the first by the tick and the second by the
\* shutdown drain.
C35_Witness ==
  /\ Len(flushed) = 2
  /\ flushed[1].by = "tick"
  /\ flushed[2].by = "shutdown"
  /\ flushed[1].n >= 1
  /\ flushed[2].n = MaxReqLen

\* ------------------------------------------------ C36: batch sizes
\* Every batch has as many events as the count said; one flushed by the
\* size trigger has at least BatchSize events, one flushed by a tick has
\* between 1 and BatchSize - 1.
C36_Inv ==
  \A i \in DOMAIN flushed :
    /\ flushed[i].n = MapCount(flushed[i].batch)
    /\ flushed[i].by = "size" => flushed[i].n >= BatchSize
    /\ flushed[i].by = "tick" => flushed[i].n \in 1..(BatchSize - 1)
    /\ flushed[i].by = "shutdown" => flushed[i].n >= 1

\* The merge that fires the size trigger brings the count to less than
\* BatchSize plus the events of the request merged, and the flush that
\* follows hands over that many events.
C36_Step ==
  /\ (pc = "select" /\ pc' = "flush" /\ trigger' = "size")
       => /\ incoming # <<>>
          /\ numBuffered < BatchSize
          /\ numBuffered' = numBuffered + Len(Head(incoming).events)
          /\ numBuffered' >= BatchSize
          /\ numBuffered' < BatchSize + Len(Head(incoming).events)
  /\ Len(flushed') > Len(flushed)
       => /\ flushed'[Len(flushed')].n = numBuffered
          /\ flushed'[Len(flushed')].by = trigger

\* C36: a batch flushed by the size trigger has at least BatchSize events
\* and fewer than BatchSize plus the events of the request that fired the
\* trigger; a batch flushed by a tick has between 1 and BatchSize - 1
\* events; the shutdown batch is not bounded by BatchSize.
C36_BatchSizes == []C36_Inv /\ [][C36_Step]_vars

\* A batch flushed by the size trigger that holds more than BatchSize
\* events: the request that fired the trigger brought the largest number.
C36_Witness ==
  /\ Len(flushed) = 1
  /\ flushed[1].by = "size"
  /\ flushed[1].n = BatchSize + MaxReqLen - 1
  /\ pc = "select"
  /\ closePc = "idle"

\* ------------------------------------------------ C37: who closes Events
\* Events is closed only once a Stop call has waited for the loop; a loop
\* that has ended by itself leaves it open, and nothing is received from it.
C37_Inv ==
  /\ eventsClosed => stopErr # <<>>
  /\ (loopPc = "returned" /\ NotStopped) => ~eventsClosed

\* One step: Events goes from open to closed only in the close of a Stop
\* call, and while the loop has returned nothing is delivered.
C37_Step ==
  /\ (~eventsClosed /\ eventsClosed') => (stopPc = "close" /\ stopPc' = "idle")
  /\ loopPc = "returned" => delivered' = delivered

\* C37: the loop never closes Events itself: after it has ended by itself
\* with a terminal error Events stays open, with nothing delivered on it,
\* until Stop() is called, and only Stop() closes it.
C37_OnlyStopClosesEvents == []C37_Inv /\ [][C37_Step]_subVars

\* The loop has ended on the exhaustion of the policy, Stop has not been
\* called and Events is open.
C37_Witness ==
  /\ loopPc = "returned"
  /\ loopErr = "ErrTimeout"
  /\ NotStopped
  /\ ~eventsClosed
  /\ ~IsRunning

\* ------------------------------------------------ C38: the helper ends
\* The helper goroutine of receive is alive: in scanner.Scan or at its send
\* on tokenCh.
HelperAlive == scanPc \in {"scan", "send"}

\* When receive returns because tokenCh was closed, the helper has ended.
C38_EndsWithBody ==
  [][(InReceive /\ ~InReceive' /\ scanPc' = "none") => scanPc = "closed"]_subVars

\* C38: the helper goroutine always ends after receive has returned: once
\* the loop has returned, a helper still alive gets to the end of its
\* function, and is not left at its send for ever (in a process that has
\* not panicked).
C38_HelperTerminates ==
  (loopPc = "returned" /\ HelperAlive) ~> (~HelperAlive \/ subPanic # "none")

\* ------------------------------------------------ C39: the scan buffer
\* C39: the bytes the receive loop decodes for a frame are the bytes the
\* scanner yielded for it: no Scan of the helper goroutine writes into the
\* buffer, or completes, while the frame is being decoded, and no event is
\* decoded from overwritten bytes.
C39_DecodesScannedBytes ==
  /\ ~clobbered
  /\ loopPc = "decode" => scanPc # "send"
  /\ loopPc = "deliver" => event # 0
  /\ \A i \in DOMAIN delivered : delivered[i] # 0

====
